---- MODULE Spec2Model ----
(***************************************************************************)
(* Model of the multi-provider chat backend's core: the provider registry  *)
(* (backend/services/llm_service.py, class LLMService) and the cooperative *)
(* orchestrator (backend/services/cooperative_orchestrator.py, class       *)
(* CooperativeOrchestrator).                                               *)
(*                                                                         *)
(* Texts are abstracted by what the code reads of them: their word,        *)
(* character and sentence counts and whether they hold a complexity        *)
(* keyword.  User prompts are drawn from the family "n copies of one word  *)
(* of wl letters, separated by single blanks, no punctuation".  Adapter    *)
(* calls (HTTP requests to the vendors) are the environment: each attempt  *)
(* either answers or fails with a reason.                                  *)
(***************************************************************************)
EXTENDS Integers, Sequences, FiniteSets, TLC

\* ------------------------------------------------------------------ bounds

\* Longest subtask list a division reply of the LLM may hold.
MaxReplyItems == 4
\* Longest result list handed to a direct call of _combine_results.
MaxDirectResults == 3
\* Most workers a direct call of divide_task asks for.
MaxDivideWorkers == 4

\* --------------------------------------------------------- program constants

\* self.complexity_threshold, self.max_workers
complexity_threshold == 500
max_workers == 3
\* The keyword bonus and the divisor of recommended_workers.
KeywordBonus == 100
WorkersDivisor == 300

\* The adapters _initialize_providers can register, in the order
\* _get_provider_priority ranks them ("local" is never registered: its module
\* backend/services/local_provider.py does not exist, the import fails and the
\* failure is caught).
DefaultOrder == <<"openai", "openrouter", "groq">>
AdapterNames == {DefaultOrder[i] : i \in 1..Len(DefaultOrder)}
\* A provider name no adapter is ever registered under.
UnknownNames == {"mistral"}

\* Why an adapter call fails (the text of the exception it raises).
Reasons == {"timeout", "http_error"}
AttemptOutcomes == {"ok"} \cup Reasons

\* ------------------------------------------------------------------- texts

\* The prompt made of n copies of a word of wl letters (kw: the word is one of
\* complexity_keywords), joined by single blanks.
Prompt(n, wl, kw) == [kind |-> "prompt", n |-> n, wl |-> wl, kw |-> kw]

EmptyPrompt == Prompt(0, 0, FALSE)
\* Four words: a greeting-sized prompt (score 3.6).
SimplePrompt == Prompt(4, 4, FALSE)
\* 444 times "ebook": score exactly 500.0, the threshold itself.
EdgePrompt == Prompt(444, 5, TRUE)
\* score 500.8: two workers; score 600.7: three workers.
TwoWorkerPrompt == Prompt(556, 5, FALSE)
ThreeWorkerPrompt == Prompt(667, 5, FALSE)
\* score 1800.4: every third of it is still above the threshold.
HugePrompt == Prompt(2000, 5, FALSE)

\* A text given by what analyze_complexity reads of it: wc words, cc
\* characters, `stops` runs of the characters . ! ? and nk of the
\* complexity_keywords contained.
Text(wc, cc, stops, nk) == [kind |-> "text", wc |-> wc, cc |-> cc, stops |-> stops, nk |-> nk]

\* "Olá, como você está?" (tests/test_cooperative_system.py, line 14)
GreetingText == Text(4, 20, 1, 0)
\* The prompt of test_complexity_analysis_complex (lines 22-27): 41 words,
\* 324 characters, two full stops, and the keywords ebook, 100 páginas,
\* completo, detalhado and capítulos.
TestComplexText == Text(41, 324, 2, 5)
\* "ebook" and "ebxok"; "ebook livro" and "ebxok livrx".
OneKeywordText == Text(1, 5, 0, 1)
OneWordText == Text(1, 5, 0, 0)
TwoKeywordsText == Text(2, 11, 0, 2)
TwoWordsText == Text(2, 11, 0, 0)

\* The fallback division's task text "{chunk} - parte {i} de {n}", where the
\* chunk is the words keywords[start:end] of the lower-cased prompt p (m of
\* them).
ChunkText(p, start, end, i, n) ==
  [kind |-> "chunk", of |-> p, start |-> start, m |-> end - start, i |-> i, n |-> n]

\* start_idx and end_idx of the i-th chunk (i from 1) of `words` words split
\* for n workers: chunk_size = len(keywords) // num_workers words each, the
\* last chunk running to the end of the list (end_idx = None).
ChunkStart(words, n, i) == (i - 1) * (words \div n)

\* Fault variant of ChunkEnd: the last chunk cut like the others.
ChunkEndEven(words, n, i) == ChunkStart(words, n, i) + (words \div n)

ChunkEnd(words, n, i) ==
  IF i < n THEN ChunkStart(words, n, i) + (words \div n) ELSE words
\* divide_task's division_prompt and _combine_results's combine_prompt.
DivisionPrompt(p, n) == [kind |-> "division", prompt |-> p, n |-> n]
CombinePrompt(p, combined) == [kind |-> "combine", prompt |-> p, combined |-> combined]

\* What analyze_complexity reads of a text: word_count = len(text.split()),
\* char_count = len(text), sentence_count = len(re.split(r'[.!?]+', text)) and
\* has_complex_keywords.  The two templates add their own words, characters
\* and one sentence break ("etc.)" and the final full stop) around the prompt;
\* for the combination prompt the partial results only add to the counts, so
\* the counts given are a lower bound.
RECURSIVE Counts(_)
Counts(t) ==
  CASE t.kind = "prompt" ->
         [wc |-> t.n,
          cc |-> IF t.n = 0 THEN 0 ELSE t.n * t.wl + (t.n - 1),
          sc |-> 1,
          kw |-> t.kw /\ t.n > 0,
          nk |-> IF t.kw /\ t.n > 0 THEN 1 ELSE 0]
    [] t.kind = "text" ->
         [wc |-> t.wc, cc |-> t.cc, sc |-> t.stops + 1, kw |-> t.nk > 0, nk |-> t.nk]
    [] t.kind = "chunk" ->
         [wc |-> t.m + 5,
          cc |-> (IF t.m = 0 THEN 0 ELSE t.m * t.of.wl + (t.m - 1)) + 15,
          sc |-> 1,
          kw |-> t.of.kw /\ t.m > 0,
          nk |-> IF t.of.kw /\ t.m > 0 THEN 1 ELSE 0]
    [] t.kind = "division" ->
         LET c == Counts(t.prompt)
         IN  [wc |-> c.wc + 48, cc |-> c.cc + 392, sc |-> c.sc + 1, kw |-> c.kw,
              nk |-> c.nk]
    [] t.kind = "combine" ->
         LET c == Counts(t.prompt)
         IN  [wc |-> c.wc + 28, cc |-> c.cc + 283, sc |-> c.sc + 1, kw |-> c.kw,
              nk |-> c.nk]

\* ------------------------------------------------------- analyze_complexity

\* Fault variant of KeywordTerm: the bonus given for each keyword found.
KeywordTermPerKeyword(c) == 10 * KeywordBonus * c.nk

\* (100 if has_complex_keywords else 0), times ten.
KeywordTerm(c) == IF c.kw THEN 10 * KeywordBonus ELSE 0

\* Ten times complexity_score (the code's weights are 0.3, 0.1 and 0.5), so
\* that the arithmetic stays in the integers.  On the texts drawn below the
\* code's floating-point score is within rounding of this value and gives
\* the same needs_cooperation and recommended_workers.
Score10(c) == 3 * c.wc + c.cc + 5 * c.sc + KeywordTerm(c)

\* Fault variant of NeedsCooperation: the comparison made inclusive.
NeedsCooperationAtThreshold(c) == Score10(c) >= 10 * complexity_threshold
\* needs_cooperation = complexity_score > self.complexity_threshold
NeedsCooperation(c) == Score10(c) > 10 * complexity_threshold

CeilDiv(a, b) == (a + b - 1) \div b
Min(a, b) == IF a <= b THEN a ELSE b

\* Fault variant of RecommendedWorkers: the cap lost.
RecommendedWorkersUncapped(c) == CeilDiv(Score10(c), 10 * WorkersDivisor)

\* Fault variant of RecommendedWorkers: the count wrapped around max_workers
\* instead of capped.
RecommendedWorkersWrapped(c) ==
  ((CeilDiv(Score10(c), 10 * WorkersDivisor) - 1) % max_workers) + 1

\* min(math.ceil(complexity_score / 300), self.max_workers)
RecommendedWorkers(c) == Min(CeilDiv(Score10(c), 10 * WorkersDivisor), max_workers)

\* analyze_complexity(prompt)
AnalyzeComplexity(t) ==
  LET c == Counts(t)
  IN  [complexity_score10 |-> Score10(c),
       needs_cooperation |-> NeedsCooperation(c),
       word_count |-> c.wc,
       char_count |-> c.cc,
       sentence_count |-> c.sc,
       has_complex_keywords |-> c.kw,
       recommended_workers |-> RecommendedWorkers(c)]

\* ----------------------------------------------- LLMService: the normal path

\* What an adapter returns for a text: its answer, or with stream=True a
\* generator of deltas.
Response(adapter, text, stream) ==
  [type |-> "response", provider |-> adapter, stream |-> stream,
   content |-> [by |-> adapter, re |-> text]]

Attempt(name, outcome) == [provider |-> name, outcome |-> outcome]

\* providers[name].get_response(...) with the environment's outcome; a name
\* that is no key of self.providers raises KeyError.
AdapterCall(provs, name, outcome) ==
  IF name \in provs THEN Attempt(name, outcome) ELSE Attempt(name, "KeyError")

\* Fault variant of PriorityLoop: the return inside the loop lost, every
\* adapter of the list is called.
RECURSIVE PriorityLoopThroughout(_, _, _, _, _)
PriorityLoopThroughout(provs, prio, i, o, k) ==
  IF i > Len(prio) THEN <<>>
  ELSE <<AdapterCall(provs, prio[i], o[k])>>
         \o PriorityLoopThroughout(provs, prio, i + 1, o, k + 1)

\* The for loop of get_response over provider_priority, from position i on,
\* with o[k] the outcome of the next attempt: it stops at the first success.
RECURSIVE PriorityLoop(_, _, _, _, _)
PriorityLoop(provs, prio, i, o, k) ==
  IF i > Len(prio) THEN <<>>
  ELSE LET a == AdapterCall(provs, prio[i], o[k])
       IN  IF a.outcome = "ok" THEN <<a>>
           ELSE <<a>> \o PriorityLoop(provs, prio, i + 1, o, k + 1)

\* Fault variant of ExplicitAttempt: the membership test lost.
ExplicitAttemptUnchecked(provs, provider, o) ==
  IF provider # "auto"
  THEN <<AdapterCall(provs, provider, o[1])>>
  ELSE <<>>

\* The explicit-provider block: one attempt when provider is a registered
\* name other than "auto", none otherwise.
ExplicitAttempt(provs, provider, o) ==
  IF provider # "auto" /\ provider \in provs
  THEN <<AdapterCall(provs, provider, o[1])>>
  ELSE <<>>

Succeeded(attempts) == attempts # <<>> /\ attempts[Len(attempts)].outcome = "ok"

\* Fault variant of ErrorEntries: errors overwritten instead of appended to.
ErrorEntriesLastOnly(attempts) ==
  IF attempts = <<>> THEN <<>>
  ELSE <<[provider |-> attempts[Len(attempts)].provider,
          reason |-> attempts[Len(attempts)].outcome]>>

\* errors: one "name: reason" entry per failed attempt of the loop.
ErrorEntries(attempts) ==
  [j \in 1..Len(attempts) |-> [provider |-> attempts[j].provider, reason |-> attempts[j].outcome]]

AllProvidersFailed(errors) == [type |-> "AllProvidersFailed", errors |-> errors]
NoProviders == [type |-> "NoProviders"]

Returned(v) == [kind |-> "return", value |-> v]
Raised(e) == [kind |-> "raise", value |-> e]
Pending == [kind |-> "none", value |-> [type |-> "none"]]

\* Fault variant of NormalPath: the explicit adapter's failure ends the
\* request, the priority loop runs only when no adapter was named.
NormalPathExplicitOnly(provs, prio, provider, text, stream, o) ==
  LET ex == ExplicitAttempt(provs, provider, o)
      lp == IF ex # <<>> THEN <<>> ELSE PriorityLoop(provs, prio, 1, o, 1)
  IN  [explicit |-> ex,
       loop |-> lp,
       outcome |-> IF Succeeded(ex) THEN Returned(Response(ex[1].provider, text, stream))
                   ELSE IF Succeeded(lp)
                   THEN Returned(Response(lp[Len(lp)].provider, text, stream))
                   ELSE Raised(AllProvidersFailed(ErrorEntries(ex \o lp)))]

\* Lines 126-151 of get_response (the "modo normal"): the explicit adapter if
\* one is named and registered; when it fails, or none is named, the
\* priority loop; when the loop ends without a success, the aggregated error.
NormalPath(provs, prio, provider, text, stream, o) ==
  LET ex == ExplicitAttempt(provs, provider, o)
      lp == IF Succeeded(ex) THEN <<>>
            ELSE PriorityLoop(provs, prio, 1, o, Len(ex) + 1)
  IN  [explicit |-> ex,
       loop |-> lp,
       outcome |-> IF Succeeded(ex) THEN Returned(Response(ex[1].provider, text, stream))
                   ELSE IF Succeeded(lp)
                   THEN Returned(Response(lp[Len(lp)].provider, text, stream))
                   ELSE Raised(AllProvidersFailed(ErrorEntries(lp)))]

\* The outcomes the environment may give to the attempts of a caller's request:
\* any.
OutcomeSeqs(prio) == [1..(Len(prio) + 1) -> AttemptOutcomes]

\* The outcomes it may give to the attempts of a call the orchestrator makes:
\* every attempt answers, the first one times out and the others answer, or
\* none answers.
CallOutcomeSeqs(prio) ==
  {[k \in 1..(Len(prio) + 1) |-> "ok"],
   [k \in 1..(Len(prio) + 1) |-> IF k = 1 THEN "timeout" ELSE "ok"],
   [k \in 1..(Len(prio) + 1) |-> "http_error"]}

\* The outcomes it may give to the attempts of a subtask's call: every attempt
\* answers, or none does.
SubtaskOutcomeSeqs(prio) ==
  {[k \in 1..(Len(prio) + 1) |-> "ok"], [k \in 1..(Len(prio) + 1) |-> "timeout"]}


\* ------------------------------------------- LLMService: a call of the registry

\* What get_response returns when, inside a subtask's worker thread, it runs a
\* cooperative execution of its own: that execution's CooperativeResult (a
\* dict without a "content" key).
NestedCooperativeResult == [type |-> "cooperative", cooperative |-> TRUE, nested |-> TRUE]

NonEmpty(t) == ~(t.kind = "prompt" /\ t.n = 0) /\ ~(t.kind = "text" /\ t.cc = 0)

\* self.llm_service.get_response([{"role": "user", "content": text}], ...) as
\* the orchestrator calls it: provider = "auto", cooperative = True.
\*   - no adapter registered: raises at once;
\*   - the text needs cooperation: get_response starts an event loop of its
\*     own for execute_cooperative_task.  On a thread whose event loop is
\*     running (inLoop: the division, combination and single-provider calls)
\*     run_until_complete raises RuntimeError, which the except clause of
\*     line 123 swallows; on a worker thread (the subtask calls) the nested
\*     execution runs, and either returns its result (nested = "result") or
\*     raises (nested = "raise"), which line 123 swallows too;
\*   - otherwise, and after a swallowed failure: the normal path.
RegistryCall(provs, prio, text, stream, inLoop, nested, o) ==
  LET wants == NonEmpty(text) /\ AnalyzeComplexity(text).needs_cooperation
  IN  IF provs = {}
      THEN [explicit |-> <<>>, loop |-> <<>>, outcome |-> Raised(NoProviders),
            gate |-> "none"]
      ELSE IF wants /\ ~inLoop /\ nested = "result"
      THEN [explicit |-> <<>>, loop |-> <<>>,
            outcome |-> Returned(NestedCooperativeResult), gate |-> "reentered"]
      ELSE LET np == NormalPath(provs, prio, "auto", text, stream, o)
           IN  [explicit |-> np.explicit, loop |-> np.loop, outcome |-> np.outcome,
                gate |-> IF ~wants THEN "skipped"
                         ELSE IF inLoop THEN "loop_running" ELSE "reentered"]

NestedOutcomes == {"result", "raise"}

\* ------------------------------------------------------------ the orchestrator

Roles == <<"pesquisador", "escritor", "revisor">>

\* What the division call's answer may hold: no JSON array at all, a bracketed
\* text json.loads rejects, or a JSON array of subtask objects.
\* The i-th subtask of such an array: a short task, or (every second one) a
\* task that is itself above the threshold.
LlmSubtask(i) ==
  [task |-> IF i % 2 = 0 THEN ThreeWorkerPrompt ELSE SimplePrompt,
   role |-> Roles[((i - 1) % 3) + 1]]

SeqsUpTo(S, n) == UNION {[1..k -> S] : k \in 0..n}

DivisionReplies ==
  {[kind |-> "nojson", items |-> <<>>], [kind |-> "badjson", items |-> <<>>]}
    \cup {[kind |-> "list", items |-> [i \in 1..k |-> LlmSubtask(i)]] :
             k \in 0..MaxReplyItems}

\* Fault variant of Truncate: the slice lost.
TruncateNone(items, n) == items

\* subtasks[:num_workers]
Truncate(items, n) == SubSeq(items, 1, Min(Len(items), n))

\* _simple_task_division: chunk_size = len(keywords) // num_workers words per
\* chunk, the last chunk taking what is left.
SimpleTaskDivision(p, n) ==
  LET words == Counts(p).wc
  IN  [i \in 1..n |->
         [task |-> ChunkText(p, ChunkStart(words, n, i), ChunkEnd(words, n, i), i, n),
          role |-> Roles[((i - 1) % 3) + 1],
          order |-> i]]

\* division_result['content'] can be read: the call returned, and what it
\* returned is an adapter's response (not the dict of a cooperative execution
\* the call ran on its own).
HasContent(rc) ==
  /\ rc.outcome.kind = "return"
  /\ "content" \in DOMAIN rc.outcome.value

\* Fault variant of DivideOutcome: a failed division gives no subtask.
DivideOutcomeEmptyOnFailure(p, n, rc, reply) ==
  IF HasContent(rc) /\ reply.kind = "list"
  THEN Truncate(reply.items, n)
  ELSE <<>>

\* divide_task after its division call rc, whose answer (if any) is reply.
DivideOutcome(p, n, rc, reply) ==
  IF HasContent(rc) /\ reply.kind = "list"
  THEN Truncate(reply.items, n)
  ELSE SimpleTaskDivision(p, n)

\* Fault variant of PrimarySubtask: one worker served by the fallback split.
PrimarySubtaskBySplit(p) == SimpleTaskDivision(p, 1)

\* [{"task": prompt, "role": "primary"}]
PrimarySubtask(p) == <<[task |-> p, role |-> "primary"]>>

SubtaskResult(task, rc) ==
  IF rc.outcome.kind = "return"
  THEN [task |-> task, success |-> TRUE, result |-> rc.outcome.value]
  ELSE [task |-> task, success |-> FALSE, error |-> rc.outcome.value]

IsSuccess(r) == r.success

\* successful_results = [r for r in results if r["success"]]
SuccessfulResults(results) == SelectSeq(results, IsSuccess)

\* One "## PARTE {i+1} - {role}\n{content}" block.
Part(i, r) == [part |-> i, role |-> r.task.role, content |-> r.result.content]

\* The positions of the successful results in the list.
SuccessPositions(results) ==
  SelectSeq([i \in 1..Len(results) |-> i], LAMBDA i : results[i].success)

\* Fault variant of CombinedContent: enumerate over the whole list, so that a
\* block carries its position among all the results.
CombinedContentByPosition(results) ==
  LET pos == SuccessPositions(results)
  IN  [j \in 1..Len(pos) |-> Part(pos[j], results[pos[j]])]

\* combined_content: the blocks of the successful results, numbered among
\* themselves and joined by blank lines.
CombinedContent(results) ==
  LET succ == SuccessfulResults(results)
  IN  [i \in 1..Len(succ) |-> Part(i, succ[i])]

\* result['task']['role'] and result['result']['content'] can be read.
Readable(r) ==
  /\ "role" \in DOMAIN r.task
  /\ "content" \in DOMAIN r.result

AllSubtasksFailed == [type |-> "AllSubtasksFailed"]
KeyError == [type |-> "KeyError"]
AttributeError == [type |-> "AttributeError"]
ValueError == [type |-> "ValueError"]

\* Fault variant of NoneSucceeded: the test made on the list given.
NoneGiven(results) == results = <<>>

\* if not successful_results
NoneSucceeded(results) == SuccessfulResults(results) = <<>>

\* Fault variant of OnlyOne: the length taken of the list given.
OnlyOneGiven(results) == Len(results) = 1

\* if len(successful_results) == 1
OnlyOne(results) == Len(SuccessfulResults(results)) = 1

\* {"content": combined_content, "combined_raw": True}
RawCombination(combined) ==
  [type |-> "raw", content |-> combined, combined_raw |-> TRUE]

\* Fault variant of AfterCombineCall: no except clause around the call.
AfterCombineCallUncaught(rc, combined) == rc.outcome

\* The try/except around the combination call rc: its answer, or the raw
\* combination when it raised.
AfterCombineCall(rc, combined) ==
  IF rc.outcome.kind = "return" THEN rc.outcome
  ELSE Returned(RawCombination(combined))

NoCall == [explicit |-> <<>>, loop |-> <<>>, outcome |-> Pending, gate |-> "none"]
NoText == [kind |-> "none"]

\* _combine_results(results, original_prompt), with o the outcomes of the
\* combination call's attempts: what it returns or raises, and the registry
\* call it made, if any.
CombineResults(results, prompt, provs, prio, o) ==
  LET succ == SuccessfulResults(results)
  IN  IF NoneSucceeded(results)
      THEN [called |-> FALSE, rc |-> NoCall, text |-> NoText,
            outcome |-> Raised(AllSubtasksFailed)]
      ELSE IF OnlyOne(results)
      THEN [called |-> FALSE, rc |-> NoCall, text |-> NoText,
            outcome |-> Returned(succ[1].result)]
      ELSE IF \E i \in 1..Len(succ) : ~Readable(succ[i])
      THEN [called |-> FALSE, rc |-> NoCall, text |-> NoText,
            outcome |-> Raised(KeyError)]
      ELSE LET combined == CombinedContent(results)
               text == CombinePrompt(prompt, combined)
               rc == RegistryCall(provs, prio, text, FALSE, TRUE, "raise", o)
           IN  [called |-> TRUE, rc |-> rc, text |-> text,
                outcome |-> AfterCombineCall(rc, combined)]

\* The dict execute_cooperative_task returns on the cooperative path.
CooperativeResult(n, analysis, subs, final) ==
  [type |-> "cooperative", cooperative |-> TRUE, workers_used |-> n,
   complexity_analysis |-> analysis, subtasks |-> subs, final_result |-> final]

\* The dict _execute_single_provider returns.
SingleResult(resp, stream) ==
  IF stream
  THEN [type |-> "single", cooperative |-> FALSE, stream |-> resp]
  ELSE [type |-> "single", cooperative |-> FALSE, content |-> resp.content,
        workers_used |-> 1]

\* Fault variant of ValidPriority: the registered names of the list, in the
\* registry's fixed order instead of the order given.
ValidPriorityDefaultOrder(provs, priority) ==
  SelectSeq(DefaultOrder,
            LAMBDA x : x \in provs /\ \E i \in 1..Len(priority) : priority[i] = x)

\* set_provider_priority: valid_priority = [p for p in priority if p in
\* available_providers]
ValidPriority(provs, priority) == SelectSeq(priority, LAMBDA x : x \in provs)

\* _get_provider_priority: the registered adapters in the fixed order.
InitialPriority(provs) == SelectSeq(DefaultOrder, LAMBDA x : x \in provs)

\* ------------------------------------------------------------------ state

VARIABLES
  providers,          \* LLMService.providers: the names of the registered adapters
  provider_priority,  \* LLMService.provider_priority
  pc,                 \* where the request being served stands
  req,                \* the request: entry point and arguments
  num_workers,        \* execute_cooperative_task's num_workers
  subtasks,           \* the list divide_task returned
  running,            \* the subtasks whose future has not completed
  results,            \* _execute_parallel_blocking's results, in completion order
  ret,                \* what the request returned or raised to its caller
  coopError,          \* the exception execute_cooperative_task raised, if any
  lastCall,           \* the latest call of the registry: what, and its attempts
  regCalls,           \* registry calls the orchestrator made, by purpose
  reentered,          \* a subtask call started a cooperative execution of its own
  division_result,    \* what divide_task read of its division call's answer
  sse                 \* a provider's stream handler: lines read, deltas yielded

vars == <<providers, provider_priority, pc, req, num_workers, subtasks, running,
          results, ret, coopError, lastCall, regCalls, reentered,
                 division_result, sse>>

NoReply == [kind |-> "none", items |-> <<>>]
NoStream == [lines |-> <<>>, deltas |-> <<>>]

NoRequest == [entry |-> "none", prompt |-> EmptyPrompt, provider |-> "auto",
              cooperative |-> FALSE, stream |-> FALSE]
NoError == [type |-> "none"]
NoRegCalls == [request |-> 0, division |-> 0, subtask |-> 0, combine |-> 0, single |-> 0]
NoLastCall == [kind |-> "none", provider |-> "auto", prio |-> <<>>, text |-> NoText,
               explicit |-> <<>>, loop |-> <<>>, outcome |-> Pending, gate |-> "none"]

\* The record kept of a registry call rc made for `kind`.
CallRecord(kind, provider, prio, text, rc) ==
  [kind |-> kind, provider |-> provider, prio |-> prio, text |-> text,
   explicit |-> rc.explicit, loop |-> rc.loop, outcome |-> rc.outcome, gate |-> rc.gate]

\* LLMService.__init__: the adapters whose API key the environment holds, and
\* their default priority.
Init ==
  /\ providers \in SUBSET AdapterNames
  /\ provider_priority = InitialPriority(providers)
  /\ pc = "idle"
  /\ req = NoRequest
  /\ num_workers = 0
  /\ subtasks = <<>>
  /\ running = {}
  /\ results = <<>>
  /\ ret = Pending
  /\ coopError = NoError
  /\ lastCall = NoLastCall
  /\ regCalls = NoRegCalls
  /\ reentered = FALSE
  /\ division_result = NoReply
  /\ sse = NoStream


\* ------------------------------------------------------ LLMService's actions

ProviderArgs == {"auto"} \cup AdapterNames \cup UnknownNames

\* A caller (the chat route) calls get_response(messages, stream, provider,
\* cooperative), p being the content of the last user message.
StartGetResponse(p, provider, cooperative, stream) ==
  /\ pc = "idle"
  /\ req' = [entry |-> "get_response", prompt |-> p, provider |-> provider,
             cooperative |-> cooperative, stream |-> stream]
  /\ pc' = "gr_entry"
  /\ UNCHANGED <<providers, provider_priority, num_workers, subtasks, running,
                 results, ret, coopError, lastCall, regCalls, reentered,
                 division_result, sse>>

\* get_response, lines 91-121: no adapter at all raises; a prompt that needs
\* cooperation goes to execute_cooperative_task; anything else to the normal
\* path.
GetResponseEntry ==
  /\ pc = "gr_entry"
  /\ IF providers = {}
     THEN /\ ret' = Raised(NoProviders)
          /\ pc' = "done"
     ELSE /\ ret' = ret
          /\ pc' = IF /\ req.cooperative
                      /\ NonEmpty(req.prompt)
                      /\ AnalyzeComplexity(req.prompt).needs_cooperation
                   THEN "ect_entry"
                   ELSE "gr_normal"
  /\ UNCHANGED <<providers, provider_priority, req, num_workers, subtasks, running,
                 results, coopError, lastCall, regCalls, reentered,
                 division_result, sse>>

\* get_response, lines 126-151: the normal path, for the caller's provider
\* argument and messages.
GetResponseNormal ==
  /\ pc = "gr_normal"
  /\ \E o \in OutcomeSeqs(provider_priority) :
       LET np == NormalPath(providers, provider_priority, req.provider,
                            req.prompt, req.stream, o)
           rc == [explicit |-> np.explicit, loop |-> np.loop,
                  outcome |-> np.outcome, gate |-> "none"]
       IN  /\ ret' = np.outcome
           /\ lastCall' = CallRecord("request", req.provider, provider_priority,
                                     req.prompt, rc)
           /\ regCalls' = [regCalls EXCEPT !.request = @ + 1]
  /\ pc' = "done"
  /\ UNCHANGED <<providers, provider_priority, req, num_workers, subtasks, running,
                 results, coopError, reentered, division_result, sse>>

\* The lists an operator hands to set_provider_priority.
PriorityArgs ==
  {<<>>, <<"mistral">>, <<"groq", "openai">>, <<"openrouter", "mistral", "openrouter">>}

\* set_provider_priority(priority): the registered names of the list become
\* the priority, unless none is registered.
SetProviderPriority(priority) ==
  /\ LET valid_priority == ValidPriority(providers, priority)
     IN  provider_priority' = IF valid_priority # <<>> THEN valid_priority
                              ELSE provider_priority
  /\ UNCHANGED <<providers, pc, req, num_workers, subtasks, running, results, ret,
                 coopError, lastCall, regCalls, reentered,
                 division_result, sse>>

\* ------------------------------------------------- the orchestrator's actions

\* A caller (the cooperative route) calls execute_cooperative_task(p, stream)
\* on an event loop.
StartExecute(p, stream) ==
  /\ pc = "idle"
  /\ req' = [entry |-> "execute_cooperative_task", prompt |-> p, provider |-> "auto",
             cooperative |-> TRUE, stream |-> stream]
  /\ pc' = "ect_entry"
  /\ UNCHANGED <<providers, provider_priority, num_workers, subtasks, running,
                 results, ret, coopError, lastCall, regCalls, reentered,
                 division_result, sse>>

\* Fault variant of Ends: get_response without the except clause of line 123.
EndsPropagating(outcome) ==
  /\ coopError' = IF outcome.kind = "raise" THEN outcome.value ELSE coopError
  /\ ret' = outcome
  /\ pc' = "done"

\* How execute_cooperative_task ends: its caller gets the value or the
\* exception, except that get_response (line 123) swallows the exception and
\* goes on to its normal path.
Ends(outcome) ==
  IF outcome.kind = "raise" /\ req.entry = "get_response"
  THEN /\ coopError' = outcome.value
       /\ ret' = ret
       /\ pc' = "gr_normal"
  ELSE /\ coopError' = IF outcome.kind = "raise" THEN outcome.value ELSE coopError
       /\ ret' = outcome
       /\ pc' = "done"

\* execute_cooperative_task, lines 118-128: analyze, then either the single
\* provider or the cooperative path with recommended_workers workers.
ExecuteEntry ==
  /\ pc = "ect_entry"
  /\ LET complexity == AnalyzeComplexity(req.prompt)
     IN  IF ~complexity.needs_cooperation
         THEN /\ pc' = "ect_single"
              /\ num_workers' = num_workers
         ELSE /\ pc' = "ect_divide"
              /\ num_workers' = complexity.recommended_workers
  /\ UNCHANGED <<providers, provider_priority, req, subtasks, running, results, ret,
                 coopError, lastCall, regCalls, reentered,
                 division_result, sse>>

\* _execute_single_provider: one call of the registry with the prompt.
ExecuteSingleProvider ==
  /\ pc = "ect_single"
  /\ \E o \in CallOutcomeSeqs(provider_priority) :
       LET rc == RegistryCall(providers, provider_priority, req.prompt, req.stream,
                              TRUE, "raise", o)
       IN  /\ lastCall' = CallRecord("single", "auto", provider_priority, req.prompt, rc)
           /\ regCalls' = [regCalls EXCEPT !.single = @ + 1]
           /\ Ends(IF rc.outcome.kind = "return"
                   THEN Returned(SingleResult(rc.outcome.value, req.stream))
                   ELSE rc.outcome)
  /\ UNCHANGED <<providers, provider_priority, req, num_workers, subtasks, running,
                 results, reentered, division_result, sse>>

\* divide_task(prompt, num_workers): one worker takes the prompt as it is;
\* otherwise the division call, and the subtasks of its answer or of the
\* fallback division.
DivideTask ==
  /\ pc = "ect_divide"
  /\ IF num_workers = 1
     THEN /\ subtasks' = PrimarySubtask(req.prompt)
          /\ UNCHANGED <<lastCall, regCalls, reentered, division_result>>
     ELSE \E o \in CallOutcomeSeqs(provider_priority), reply \in DivisionReplies,
             nested \in NestedOutcomes :
            LET text == DivisionPrompt(req.prompt, num_workers)
                rc == RegistryCall(providers, provider_priority, text, FALSE,
                                   req.entry # "divide_task", nested, o)
            IN  /\ subtasks' = DivideOutcome(req.prompt, num_workers, rc, reply)
                /\ lastCall' = CallRecord("division", "auto", provider_priority, text, rc)
                /\ regCalls' = [regCalls EXCEPT !.division = @ + 1]
                /\ reentered' = (reentered \/ rc.gate = "reentered")
                /\ division_result' = IF HasContent(rc) THEN reply ELSE NoReply
  /\ IF req.entry = "divide_task"
     THEN /\ ret' = Returned(subtasks')
          /\ pc' = "done"
     ELSE /\ ret' = ret
          /\ pc' = "ect_submit"
  /\ UNCHANGED <<providers, provider_priority, req, num_workers, running, results,
                 coopError, sse>>

\* _execute_parallel: with stream=True it calls _execute_sequential_streaming,
\* a method the class does not define (AttributeError); otherwise
\* _execute_parallel_blocking opens ThreadPoolExecutor(max_workers=
\* len(subtasks)), which rejects 0 (ValueError), and submits every subtask.
ExecuteParallel ==
  /\ pc = "ect_submit"
  /\ IF req.stream
     THEN /\ Ends(Raised(AttributeError))
          /\ running' = running
     ELSE IF subtasks = <<>>
     THEN /\ Ends(Raised(ValueError))
          /\ running' = running
     ELSE /\ running' = 1..Len(subtasks)
          /\ pc' = "ect_collect"
          /\ UNCHANGED <<ret, coopError>>
  /\ UNCHANGED <<providers, provider_priority, req, num_workers, subtasks, results,
                 lastCall, regCalls, reentered,
                 division_result, sse>>

\* Fault variant of SubtaskCompletes: the collecting loop stops at the first
\* future that is done and goes on to the combination.
SubtaskCompletesFirstOnly(i) ==
  /\ pc = "ect_collect"
  /\ i \in running
  /\ \E o \in SubtaskOutcomeSeqs(provider_priority), nested \in NestedOutcomes :
       LET text == subtasks[i].task
           rc == RegistryCall(providers, provider_priority, text, FALSE, FALSE,
                              nested, o)
       IN  /\ results' = Append(results, SubtaskResult(subtasks[i], rc))
           /\ lastCall' = CallRecord("subtask", "auto", provider_priority, text, rc)
           /\ regCalls' = [regCalls EXCEPT !.subtask = @ + 1]
           /\ reentered' = (reentered \/ rc.gate = "reentered")
  /\ running' = running \ {i}
  /\ pc' = "ect_combine"
  /\ UNCHANGED <<providers, provider_priority, req, num_workers, subtasks, ret,
                 coopError, division_result, sse>>

\* Fault variant of SubtaskCompletes: a subtask's failure cancels the subtasks
\* still running.
SubtaskCompletesCancelling(i) ==
  /\ pc = "ect_collect"
  /\ i \in running
  /\ \E o \in SubtaskOutcomeSeqs(provider_priority), nested \in NestedOutcomes :
       LET text == subtasks[i].task
           rc == RegistryCall(providers, provider_priority, text, FALSE, FALSE,
                              nested, o)
       IN  /\ results' = Append(results, SubtaskResult(subtasks[i], rc))
           /\ lastCall' = CallRecord("subtask", "auto", provider_priority, text, rc)
           /\ regCalls' = [regCalls EXCEPT !.subtask = @ + 1]
           /\ reentered' = (reentered \/ rc.gate = "reentered")
           /\ running' = IF rc.outcome.kind = "return" THEN running \ {i} ELSE {}
  /\ pc' = IF running' = {} THEN "ect_combine" ELSE "ect_collect"
  /\ UNCHANGED <<providers, provider_priority, req, num_workers, subtasks, ret,
                 coopError, division_result, sse>>

\* A worker thread ends subtask i's call of the registry, and as_completed
\* hands the future to the collecting loop, which appends its result.
SubtaskCompletes(i) ==
  /\ pc = "ect_collect"
  /\ i \in running
  /\ \E o \in SubtaskOutcomeSeqs(provider_priority), nested \in NestedOutcomes :
       LET text == subtasks[i].task
           rc == RegistryCall(providers, provider_priority, text, FALSE, FALSE,
                              nested, o)
       IN  /\ results' = Append(results, SubtaskResult(subtasks[i], rc))
           /\ lastCall' = CallRecord("subtask", "auto", provider_priority, text, rc)
           /\ regCalls' = [regCalls EXCEPT !.subtask = @ + 1]
           /\ reentered' = (reentered \/ rc.gate = "reentered")
  /\ running' = running \ {i}
  /\ pc' = IF running' = {} THEN "ect_combine" ELSE "ect_collect"
  /\ UNCHANGED <<providers, provider_priority, req, num_workers, subtasks, ret,
                 coopError, division_result, sse>>

\* A caller calls _combine_results(rs, p) itself, on an event loop.
StartCombine(rs, p) ==
  /\ pc = "idle"
  /\ req' = [entry |-> "_combine_results", prompt |-> p, provider |-> "auto",
             cooperative |-> TRUE, stream |-> FALSE]
  /\ results' = rs
  /\ pc' = "ect_combine"
  /\ UNCHANGED <<providers, provider_priority, num_workers, subtasks, running, ret,
                 coopError, lastCall, regCalls, reentered,
                 division_result, sse>>

\* _combine_results(results, prompt), and lines 139-145 of
\* execute_cooperative_task, which wrap what it returns.
Combine ==
  /\ pc = "ect_combine"
  /\ \E o \in CallOutcomeSeqs(provider_priority) :
       LET c == CombineResults(results, req.prompt, providers, provider_priority, o)
       IN  /\ IF c.called
              THEN /\ lastCall' = CallRecord("combine", "auto", provider_priority,
                                             c.text, c.rc)
                   /\ regCalls' = [regCalls EXCEPT !.combine = @ + 1]
              ELSE UNCHANGED <<lastCall, regCalls>>
           /\ IF req.entry = "_combine_results" \/ c.outcome.kind = "raise"
              THEN Ends(c.outcome)
              ELSE Ends(Returned(CooperativeResult(num_workers,
                                   AnalyzeComplexity(req.prompt), subtasks,
                                   c.outcome.value)))
  /\ UNCHANGED <<providers, provider_priority, req, num_workers, subtasks, running,
                 results, reentered, division_result, sse>>

\* A caller (the cooperative route, before it runs the task) calls
\* divide_task(p, n) itself, outside any event loop.
StartDivide(p, n) ==
  /\ pc = "idle"
  /\ req' = [entry |-> "divide_task", prompt |-> p, provider |-> "auto",
             cooperative |-> TRUE, stream |-> FALSE]
  /\ num_workers' = n
  /\ pc' = "ect_divide"
  /\ UNCHANGED <<providers, provider_priority, subtasks, running, results, ret,
                 coopError, lastCall, regCalls, reentered,
                 division_result, sse>>

\* Fault variant of AnalyzeCall: the analysis is obtained through a call of the
\* registry, which counts it as a request.
AnalyzeCallThroughRegistry(p) ==
  /\ pc = "idle"
  /\ req' = [entry |-> "analyze_complexity", prompt |-> p, provider |-> "auto",
             cooperative |-> TRUE, stream |-> FALSE]
  /\ ret' = Returned(AnalyzeComplexity(p))
  /\ regCalls' = [regCalls EXCEPT !.request = @ + 1]
  /\ pc' = "done"
  /\ UNCHANGED <<providers, provider_priority, num_workers, subtasks, running,
                 results, coopError, lastCall, reentered, division_result, sse>>

\* A caller (the analyze route) calls analyze_complexity(p).
AnalyzeCall(p) ==
  /\ pc = "idle"
  /\ req' = [entry |-> "analyze_complexity", prompt |-> p, provider |-> "auto",
             cooperative |-> TRUE, stream |-> FALSE]
  /\ ret' = Returned(AnalyzeComplexity(p))
  /\ pc' = "done"
  /\ UNCHANGED <<providers, provider_priority, num_workers, subtasks, running,
                 results, coopError, lastCall, regCalls, reentered,
                 division_result, sse>>

\* ------------------------------------- the adapters' stream handler

\* The lines one streaming response may hold.
MaxStreamLines == 3

\* The adapters whose _handle_stream is modelled (the two are alike but for
\* the provider name they put in each delta).
StreamAdapters == {"groq", "openrouter"}

\* A line of response.iter_lines(): empty, not starting with 'data: ' (an
\* event or comment line), the 'data: [DONE]' sentinel, a data line json.loads
\* rejects, or a data line holding a chat-completion chunk, whose delta has no
\* content key, an empty content, or a fragment of text.
Line(kind, has_content, content) ==
  [kind |-> kind, has_content |-> has_content, content |-> content]

StreamLines ==
  {Line(k, FALSE, "") : k \in {"empty", "other", "done", "invalid"}}
    \cup {Line("chunk", FALSE, ""), Line("chunk", TRUE, ""),
          Line("chunk", TRUE, "Ol"), Line("chunk", TRUE, "a!")}

\* Fault variant of HandleLine: a data line that is not JSON ends the stream.
HandleLineBreakOnInvalid(line) ==
  IF line.kind \in {"empty", "other"} THEN "continue"
  ELSE IF line.kind \in {"done", "invalid"} THEN "break"
  ELSE IF line.has_content /\ line.content # "" THEN "yield"
  ELSE "continue"

\* One turn of _handle_stream's loop: `if line:`, `startswith('data: ')`,
\* `data.strip() == '[DONE]'` (break), json.loads (JSONDecodeError: continue),
\* `if chunk['choices'][0]['delta'].get('content')` (yield).
HandleLine(line) ==
  IF line.kind = "empty" THEN "continue"
  ELSE IF line.kind = "other" THEN "continue"
  ELSE IF line.kind = "done" THEN "break"
  ELSE IF line.kind = "invalid" THEN "continue"
  ELSE IF line.has_content /\ line.content # "" THEN "yield"
  ELSE "continue"

\* The dict yielded for a chunk: its fragment, the chunk's model and the
\* adapter's own name.
Delta(line, adapter) ==
  [delta |-> line.content, model |-> "chunk-model", provider |-> adapter]

\* What the consumer of the generator has when the generator is exhausted.
StreamEnd(deltas) == [type |-> "stream_end", deltas |-> deltas]

\* An adapter's get_response(stream=True) hands the HTTP response to
\* _handle_stream.
OpenStream(adapter) ==
  /\ pc = "idle"
  /\ adapter \in providers
  /\ req' = [entry |-> "_handle_stream", prompt |-> SimplePrompt,
             provider |-> adapter, cooperative |-> FALSE, stream |-> TRUE]
  /\ pc' = "stream"
  /\ UNCHANGED <<providers, provider_priority, num_workers, subtasks, running,
                 results, ret, coopError, lastCall, regCalls, reentered,
                 division_result, sse>>

\* iter_lines hands the loop its next line.
ReadLine(line) ==
  /\ pc = "stream"
  /\ Len(sse.lines) < MaxStreamLines
  /\ sse' = [lines |-> Append(sse.lines, line),
             deltas |-> IF HandleLine(line) = "yield"
                        THEN Append(sse.deltas, Delta(line, req.provider))
                        ELSE sse.deltas]
  /\ IF HandleLine(line) = "break"
     THEN /\ pc' = "done"
          /\ ret' = Returned(StreamEnd(sse'.deltas))
     ELSE UNCHANGED <<pc, ret>>
  /\ UNCHANGED <<providers, provider_priority, req, num_workers, subtasks, running,
                 results, coopError, lastCall, regCalls, reentered,
                 division_result>>

\* iter_lines is exhausted: the vendor closed the response.
StreamEnds ==
  /\ pc = "stream"
  /\ pc' = "done"
  /\ ret' = Returned(StreamEnd(sse.deltas))
  /\ UNCHANGED <<providers, provider_priority, req, num_workers, subtasks, running,
                 results, coopError, lastCall, regCalls, reentered,
                 division_result, sse>>

\* The caller has its answer; the next request may come.
Finish ==
  /\ pc = "done"
  /\ pc' = "idle"
  /\ req' = NoRequest
  /\ num_workers' = 0
  /\ subtasks' = <<>>
  /\ running' = {}
  /\ results' = <<>>
  /\ ret' = Pending
  /\ coopError' = NoError
  /\ lastCall' = NoLastCall
  /\ regCalls' = NoRegCalls
  /\ reentered' = FALSE
  /\ division_result' = NoReply
  /\ sse' = NoStream
  /\ UNCHANGED <<providers, provider_priority>>

\* The results a direct caller of _combine_results may hand it.
DirectResults ==
  {[task |-> [task |-> SimplePrompt, role |-> "pesquisador"], success |-> TRUE,
    result |-> Response("groq", SimplePrompt, FALSE)],
   [task |-> [task |-> SimplePrompt, role |-> "escritor"], success |-> TRUE,
    result |-> Response("openai", SimplePrompt, FALSE)],
   [task |-> [task |-> SimplePrompt, role |-> "revisor"], success |-> FALSE,
    error |-> AllProvidersFailed(<<[provider |-> "groq", reason |-> "timeout"]>>)],
   [task |-> [task |-> ThreeWorkerPrompt, role |-> "escritor"], success |-> FALSE,
    error |-> NoProviders]}

\* The steps every request goes through, whoever started it.
Serve ==
  \/ GetResponseEntry
  \/ GetResponseNormal
  \/ ExecuteEntry
  \/ ExecuteSingleProvider
  \/ DivideTask
  \/ ExecuteParallel
  \/ \E i \in 1..max_workers : SubtaskCompletes(i)
  \/ Combine
  \/ Finish

\* The registry under every configuration of adapters, every provider
\* argument and changing priorities, for prompts of at most two workers.
RegistryPrompts == {EmptyPrompt, SimplePrompt, EdgePrompt, TwoWorkerPrompt}

Next ==
  \/ \E p \in RegistryPrompts, provider \in ProviderArgs, cooperative \in BOOLEAN,
        stream \in BOOLEAN : StartGetResponse(p, provider, cooperative, stream)
  \/ \E p \in RegistryPrompts, stream \in BOOLEAN : StartExecute(p, stream)
  \/ \E priority \in PriorityArgs : SetProviderPriority(priority)
  \/ Serve

Spec == Init /\ [][Next]_vars

\* The orchestrator with batches of up to max_workers subtasks, and
\* _combine_results called on its own, under the default priority.
BatchPrompts == {SimplePrompt, TwoWorkerPrompt, HugePrompt}

NextBatch ==
  \/ \E p \in BatchPrompts, provider \in {"auto", "groq"} :
        StartGetResponse(p, provider, TRUE, FALSE)
  \/ \E p \in BatchPrompts, stream \in BOOLEAN : StartExecute(p, stream)
  \/ \E rs \in SeqsUpTo(DirectResults, MaxDirectResults) :
        StartCombine(rs, TwoWorkerPrompt)
  \/ Serve

SpecBatch == Init /\ [][NextBatch]_vars

\* analyze_complexity and divide_task called on their own, on texts around
\* every step of recommended_workers and on prompts shorter and longer than
\* the number of workers.
AnalyzedLengths == {1, 332, 333, 444, 556, 666, 667, 2000}

AnalyzedTexts ==
  {EmptyPrompt, GreetingText, TestComplexText, OneKeywordText, OneWordText,
   TwoKeywordsText, TwoWordsText}
    \cup {Prompt(n, 5, kw) : n \in AnalyzedLengths, kw \in BOOLEAN}

\* Nine words as in test_task_division's prompt, ten words (a remainder for
\* three workers), two words (fewer than the workers), none, and a prompt
\* whose division prompt is itself above the threshold.
DividedPrompts ==
  {EmptyPrompt, Prompt(2, 5, FALSE), Prompt(9, 5, TRUE), Prompt(10, 5, FALSE),
   TwoWorkerPrompt}

NextAnalyze ==
  \/ \E p \in AnalyzedTexts : AnalyzeCall(p)
  \/ \E p \in DividedPrompts, n \in 1..MaxDivideWorkers : StartDivide(p, n)
  \/ DivideTask
  \/ \E priority \in PriorityArgs : SetProviderPriority(priority)
  \/ Finish

SpecAnalyze == Init /\ [][NextAnalyze]_vars

\* The stream handlers of the two adapters, on every response of at most
\* MaxStreamLines lines.
NextStream ==
  \/ \E adapter \in StreamAdapters : OpenStream(adapter)
  \/ \E line \in StreamLines : ReadLine(line)
  \/ StreamEnds
  \/ Finish

SpecStream == Init /\ [][NextStream]_vars

\* ------------------------------------------------------------------ claims

\* The attempts a follow the list prio from its head: each attempt but the
\* last failed, and the walk stops short of the end only on a success.
WalksPriority(a, prio) ==
  /\ Len(a) <= Len(prio)
  /\ \A j \in 1..Len(a) : a[j].provider = prio[j]
  /\ \A j \in 1..(Len(a) - 1) : a[j].outcome # "ok"
  /\ Len(a) < Len(prio) => Succeeded(a)

\* The aggregated error for the failed attempts a: one entry per attempt, in
\* the order of the attempts, naming the adapter and its reason.
AggregatedError(a) ==
  [type |-> "AllProvidersFailed",
   errors |-> [j \in 1..Len(a) |-> [provider |-> a[j].provider, reason |-> a[j].outcome]]]

OrchestratorCalls ==
  regCalls.division + regCalls.subtask + regCalls.combine + regCalls.single

C5_SimplePromptOneCall ==
  (req.entry = "execute_cooperative_task"
     /\ Score10(Counts(req.prompt)) <= 10 * complexity_threshold)
    => /\ regCalls.division = 0 /\ regCalls.subtask = 0 /\ regCalls.combine = 0
       /\ regCalls.request = 0
       /\ regCalls.single = (IF pc = "done" THEN 1 ELSE 0)
       /\ pc = "done" => (lastCall.kind = "single" /\ lastCall.gate \in {"skipped", "none"})
       /\ ~reentered

\* C5's case: the prompt that scores exactly the threshold, served by one
\* registry call that took two adapter attempts.
C5_Witness ==
  /\ req.entry = "execute_cooperative_task"
  /\ req.prompt = EdgePrompt
  /\ Score10(Counts(req.prompt)) = 10 * complexity_threshold
  /\ pc = "done"
  /\ regCalls.single = 1
  /\ Len(lastCall.loop) = 2
  /\ ret.kind = "return"

\* _combine_results has just acted on `results`: for a batch whose futures
\* have all completed, or for a caller of its own.
CombineActed ==
  /\ pc \in {"done", "gr_normal"}
  /\ regCalls.request = 0
  /\ \/ req.entry = "_combine_results"
     \/ subtasks # <<>> /\ Len(results) = Len(subtasks)

\* What _combine_results returned or raised then.
CombineOutcome ==
  IF coopError # NoError THEN Raised(coopError)
  ELSE IF req.entry = "_combine_results" THEN ret
  ELSE Returned(ret.value.final_result)

SuccessCount == Cardinality({i \in 1..Len(results) : results[i].success})

\* The labeled blocks of the successful results of `results`, numbered in
\* their order among the successes.
ExpectedBlocks ==
  LET s == SelectSeq(results, LAMBDA r : r.success)
  IN  [i \in 1..Len(s) |->
         [part |-> i, role |-> s[i].task.role, content |-> s[i].result.content]]

\* Every subtask of the batch has completed, and failed.
BatchFailed ==
  /\ subtasks # <<>>
  /\ Len(results) = Len(subtasks)
  /\ \A i \in 1..Len(results) : ~results[i].success

C7_RaisesWithoutSuccess ==
  CombineActed
    => /\ (\A i \in 1..Len(results) : ~results[i].success)
            => /\ CombineOutcome = Raised(AllSubtasksFailed)
               /\ regCalls.combine = 0
               /\ lastCall.kind # "combine"
       /\ CombineOutcome.kind = "return"
            => \E i \in 1..Len(results) : results[i].success

\* C7's case: _combine_results called with the empty list has raised.
C7_Witness ==
  /\ req.entry = "_combine_results"
  /\ pc = "done"
  /\ results = <<>>
  /\ ret = Raised(AllSubtasksFailed)
  /\ regCalls.combine = 0

\* The list `results` without its failed entries, and with every failed entry
\* replaced by another failure.
WithoutFailures == SelectSeq(results, LAMBDA r : r.success)
OtherFailure(r) ==
  [task |-> [task |-> HugePrompt, role |-> "primary"], success |-> FALSE,
   error |-> ValueError]
FailuresReplaced ==
  [i \in 1..Len(results) |-> IF results[i].success THEN results[i]
                             ELSE OtherFailure(results[i])]

\* C8: with k of N results successful, 1 <= k < N, what _combine_results
\* gives depends on the k successes only: the combination prompt and the raw
\* combination hold the blocks of the successes and nothing of the failed
\* results, and the outcome is the one the list gives with its failed entries
\* removed or replaced by other failures.
C8_OnlySuccessesCount ==
  (CombineActed /\ 1 <= SuccessCount /\ SuccessCount < Len(results))
    => /\ lastCall.kind = "combine"
            => /\ lastCall.text = CombinePrompt(req.prompt, ExpectedBlocks)
               /\ CombineOutcome.kind = "return"
               /\ CombineOutcome.value.type = "raw"
                    => CombineOutcome.value.content = ExpectedBlocks
       /\ \A o \in CallOutcomeSeqs(provider_priority) :
            LET c == CombineResults(results, req.prompt, providers,
                                    provider_priority, o)
            IN  /\ c = CombineResults(WithoutFailures, req.prompt, providers,
                                      provider_priority, o)
                /\ c = CombineResults(FailuresReplaced, req.prompt, providers,
                                      provider_priority, o)
       /\ \E o \in CallOutcomeSeqs(provider_priority) :
            CombineOutcome = CombineResults(WithoutFailures, req.prompt, providers,
                                            provider_priority, o).outcome

\* C8's case: three results, the first one failed, the other two combined by
\* a combination call.
C8_Witness ==
  /\ CombineActed
  /\ Len(results) = 3
  /\ ~results[1].success
  /\ SuccessCount = 2
  /\ lastCall.kind = "combine"
  /\ Len(lastCall.text.combined) = 2
  /\ CombineOutcome.kind = "return"

\* C9: when two or more results succeeded and the combination call fails,
\* _combine_results does not raise: it returns the blocks of the successful
\* results as content, with combined_raw = true; what a combination call
\* that succeeded returned is given back as it is and carries no
\* combined_raw.
C9_RawCombinationOnFailure ==
  (CombineActed /\ lastCall.kind = "combine")
    => /\ SuccessCount >= 2
       /\ IF lastCall.outcome.kind = "raise"
          THEN CombineOutcome
                 = Returned([type |-> "raw", content |-> ExpectedBlocks,
                             combined_raw |-> TRUE])
          ELSE /\ CombineOutcome = lastCall.outcome
               /\ CombineOutcome.value.type = "response"
               /\ "combined_raw" \notin DOMAIN CombineOutcome.value

\* C9's case: a batch of three, two of them successful, whose combination
\* call failed on every adapter: the request returned the raw combination.
C9_Witness ==
  /\ req.entry = "execute_cooperative_task"
  /\ pc = "done"
  /\ Len(results) = 3
  /\ SuccessCount = 2
  /\ lastCall.kind = "combine"
  /\ lastCall.outcome.kind = "raise"
  /\ ret.kind = "return"
  /\ ret.value.final_result.combined_raw
  /\ Len(ret.value.final_result.content) = 2

\* C10: when exactly one result has success = true, _combine_results returns
\* that subtask's result as it is and calls no provider.
C10_SingleSuccessUnchanged ==
  (CombineActed /\ SuccessCount = 1)
    => /\ \E i \in 1..Len(results) :
            /\ results[i].success
            /\ CombineOutcome = Returned(results[i].result)
       /\ regCalls.combine = 0
       /\ lastCall.kind # "combine"

\* C10's case: a batch of three of which only the last to complete
\* succeeded; its answer is the request's final result.
C10_Witness ==
  /\ req.entry = "execute_cooperative_task"
  /\ pc = "done"
  /\ Len(results) = 3
  /\ SuccessCount = 1
  /\ results[3].success
  /\ ret.kind = "return"
  /\ ret.value.final_result = results[3].result
  /\ regCalls.combine = 0

\* C11, as stated: a batch of three subtasks of which one failed and two
\* succeeded ends with execute_cooperative_task returning a cooperative
\* result whose final_result is made of the two successful results only, and
\* whose subtasks list holds the three submitted subtasks, the failed one
\* marked as failed.
C11_AsStated ==
  (req.entry = "execute_cooperative_task" /\ pc = "done"
     /\ Len(subtasks) = 3 /\ Len(results) = 3 /\ SuccessCount = 2)
    => /\ ret.kind = "return"
       /\ ret.value.type = "cooperative"
       /\ lastCall.kind = "combine"
       /\ lastCall.text.combined = ExpectedBlocks
       /\ ret.value.final_result \in {lastCall.outcome.value,
                                      RawCombination(ExpectedBlocks)}
       /\ Len(ret.value.subtasks) = 3
       /\ \A i \in 1..3 :
            /\ "success" \in DOMAIN ret.value.subtasks[i]
            /\ \E j \in 1..3 :
                 /\ results[j].task.task = ret.value.subtasks[i].task
                 /\ results[j].success = ret.value.subtasks[i].success

\* C12, as stated: execute_cooperative_task with stream = true on a prompt
\* that needs cooperation never has two subtask calls in flight and ends
\* with a cooperative result, not an error.
C12_AsStated ==
  (req.entry = "execute_cooperative_task" /\ req.stream
     /\ AnalyzeComplexity(req.prompt).needs_cooperation)
    => /\ Cardinality(running) <= 1
       /\ pc = "done" => (ret.kind = "return" /\ ret.value.type = "cooperative")

\* divide_task, called on its own, has answered its caller.
DivideActed == req.entry = "divide_task" /\ pc = "done"

\* C13: divide_task never raises because of the division call: when the
\* call fails, or its answer holds no JSON array that parses, divide_task
\* returns the fallback split (one chunk of the prompt per worker), and the
\* fallback makes no provider call (the division call is the only one).
C13_DivisionFailureFallsBack ==
  (DivideActed /\ num_workers > 1)
    => /\ ret.kind = "return"
       /\ coopError = NoError
       /\ regCalls = [NoRegCalls EXCEPT !.division = 1]
       /\ lastCall.kind = "division"
       /\ (lastCall.outcome.kind = "raise"
             \/ division_result.kind \in {"none", "nojson", "badjson"})
            => /\ Len(ret.value) = num_workers
               /\ \A i \in 1..num_workers :
                    /\ ret.value[i].task.kind = "chunk"
                    /\ ret.value[i].task.of = req.prompt
                    /\ ret.value[i].task.i = i
                    /\ ret.value[i].task.n = num_workers
                    /\ ret.value[i].order = i

\* C13's case: the division call failed on two adapters and divide_task
\* returned the three chunks of the fallback split.
C13_Witness ==
  /\ DivideActed
  /\ num_workers = 3
  /\ lastCall.outcome.kind = "raise"
  /\ Len(lastCall.loop) = 2
  /\ Len(ret.value) = 3
  /\ ret.value[3].task.kind = "chunk"

\* C14: the list divide_task returns is never longer than num_workers: a
\* longer list of the division answer is cut to its first num_workers
\* entries, a shorter one is returned as it is.
C14_AtMostNumWorkers ==
  /\ Len(subtasks) <= num_workers
  /\ DivideActed
       => /\ ret = Returned(subtasks)
          /\ division_result.kind = "list"
               => /\ Len(ret.value) = Min(Len(division_result.items), num_workers)
                  /\ \A i \in 1..Len(ret.value) :
                       ret.value[i] = division_result.items[i]

\* C14's case: an answer of four subtasks for three workers, cut to three.
C14_Witness ==
  /\ DivideActed
  /\ num_workers = 3
  /\ division_result.kind = "list"
  /\ Len(division_result.items) = 4
  /\ Len(ret.value) = 3

\* C15: divide_task(prompt, 1) returns the one-element list whose task is the
\* prompt itself and whose role is "primary", and calls no provider.
C15_OneWorkerIsThePrompt ==
  (DivideActed /\ num_workers = 1)
    => /\ ret = Returned(<<[task |-> req.prompt, role |-> "primary"]>>)
       /\ regCalls = NoRegCalls
       /\ lastCall = NoLastCall

\* C15's case: one worker asked for a prompt that is above the threshold.
C15_Witness ==
  /\ DivideActed
  /\ num_workers = 1
  /\ req.prompt = TwoWorkerPrompt
  /\ Len(ret.value) = 1
  /\ ret.value[1].task = TwoWorkerPrompt

\* C16: when the division answer gives nothing that parses, divide_task(p, n)
\* with n > 1 returns exactly n subtasks, each with a task and a role; the
\* chunks start at the first word, each starts where the one before ended,
\* the last ends at the last word, and the roles go round the three-element
\* role list.
C16_FallbackSplitCovers ==
  (DivideActed /\ num_workers > 1 /\ division_result.kind # "list")
    => /\ Len(ret.value) = num_workers
       /\ \A i \in 1..Len(ret.value) :
            /\ {"task", "role"} \subseteq DOMAIN ret.value[i]
            /\ ret.value[i].task.m >= 0
            /\ ret.value[i].role
                 = <<"pesquisador", "escritor", "revisor">>[((i - 1) % 3) + 1]
       /\ ret.value[1].task.start = 0
       /\ \A i \in 1..(Len(ret.value) - 1) :
            ret.value[i].task.start + ret.value[i].task.m = ret.value[i + 1].task.start
       /\ LET last == ret.value[Len(ret.value)].task
          IN  last.start + last.m = Counts(req.prompt).wc

\* C16's case: ten words for four workers: chunks of 2, 2, 2 and 4 words,
\* the fourth role being the first of the list again.
C16_Witness ==
  /\ DivideActed
  /\ num_workers = 4
  /\ req.prompt = Prompt(10, 5, FALSE)
  /\ division_result.kind = "badjson"
  /\ Len(ret.value) = 4
  /\ ret.value[1].task.m = 2
  /\ ret.value[4].task.m = 4
  /\ ret.value[4].role = "pesquisador"

\* analyze_complexity, called on its own, has answered its caller.
AnalyzeActed == req.entry = "analyze_complexity" /\ pc = "done"

\* C17: for every prompt, the empty one and the largest included,
\* analyze_complexity returns recommended_workers between 1 and max_workers.
C17_WorkersInRange ==
  /\ AnalyzeActed => ret.value.recommended_workers \in 1..max_workers
  /\ pc \in {"ect_divide", "ect_submit", "ect_collect", "ect_combine"}
       /\ req.entry \in {"get_response", "execute_cooperative_task"}
       => num_workers \in 1..max_workers

\* C17's case: the empty prompt, whose score is the 0.5 of its one sentence,
\* gets one worker.
C17_Witness ==
  /\ AnalyzeActed
  /\ req.prompt = EmptyPrompt
  /\ ret.value.complexity_score10 = 5
  /\ ret.value.recommended_workers = 1

\* C18: recommended_workers does not decrease when complexity_score grows:
\* a text scored no lower than the one just analysed is recommended no fewer
\* workers.
C18_WorkersMonotone ==
  AnalyzeActed
    => \A q \in AnalyzedTexts :
         LET a == AnalyzeComplexity(q)
         IN  /\ a.complexity_score10 >= ret.value.complexity_score10
                  => a.recommended_workers >= ret.value.recommended_workers
             /\ a.complexity_score10 <= ret.value.complexity_score10
                  => a.recommended_workers <= ret.value.recommended_workers

\* C18's case: a text just above a score of 300 gets two workers, and texts
\* scored higher get two or three, three being reached.
C18_Witness ==
  /\ AnalyzeActed
  /\ req.prompt = Prompt(333, 5, FALSE)
  /\ ret.value.recommended_workers = 2
  /\ \E q \in AnalyzedTexts :
       /\ AnalyzeComplexity(q).complexity_score10 > 3 * ret.value.complexity_score10
       /\ AnalyzeComplexity(q).recommended_workers = 3

\* C19, as stated: needs_cooperation is true exactly when the score is above
\* the threshold of 500 (a score equal to it gives false); the greeting
\* scores under 100 and gives false; the long request with the keywords
\* "ebook" and "capítulos" scores over 500, gives true and three workers.
C19_AsStated ==
  AnalyzeActed
    => /\ ret.value.needs_cooperation
            <=> (ret.value.complexity_score10 > 10 * complexity_threshold)
       /\ ret.value.complexity_score10 = 10 * complexity_threshold
            => ~ret.value.needs_cooperation
       /\ req.prompt = GreetingText
            => (ret.value.complexity_score10 < 1000 /\ ~ret.value.needs_cooperation)
       /\ req.prompt = TestComplexText
            => /\ ret.value.complexity_score10 > 10 * complexity_threshold
               /\ ret.value.needs_cooperation
               /\ ret.value.recommended_workers = 3

\* The text t with its keywords replaced by words of the same length.
WithoutKeywords(t) ==
  IF t.kind = "text" THEN [t EXCEPT !.nk = 0] ELSE [t EXCEPT !.kw = FALSE]

C21_AsStated ==
  (req.entry = "execute_cooperative_task" /\ pc = "done" /\ ret.kind = "return"
     /\ ~AnalyzeComplexity(req.prompt).needs_cooperation)
    => /\ ret.value.cooperative = FALSE
       /\ "workers_used" \in DOMAIN ret.value
       /\ ret.value.workers_used = 1

\* The list p with the names that are not registered removed, order kept.
RegisteredOf(p) == SelectSeq(p, LAMBDA x : x \in providers)

\* C22, as stated: after set_provider_priority(p), for any list p, the
\* priority is exactly p without its unregistered names, in the order given.
C22_AsStated ==
  \A p \in PriorityArgs :
    ENABLED (SetProviderPriority(p) /\ provider_priority' = RegisteredOf(p))

\* C22, amended: set_provider_priority(p) makes the priority p without its
\* unregistered names, in the order given, when at least one name of p is
\* registered, and leaves the priority as it was otherwise; at all times every
\* name of the priority is a registered adapter.
C22_RegisteredNamesInOrder ==
  /\ \A p \in PriorityArgs :
       ENABLED (/\ SetProviderPriority(p)
                /\ provider_priority' = IF RegisteredOf(p) # <<>>
                                        THEN RegisteredOf(p)
                                        ELSE provider_priority)
  /\ \A i \in 1..Len(provider_priority) : provider_priority[i] \in providers

\* A list with an unregistered name between two registered ones has been set.
C22_Witness ==
  /\ providers = AdapterNames
  /\ provider_priority = <<"openrouter", "openrouter">>

\* A step in which analyze_complexity is called and returns.
AnalyzeStep == pc = "idle" /\ pc' = "done" /\ req'.entry = "analyze_complexity"

\* C23: analyze_complexity is pure. Its call makes no call of the registry
\* and changes nothing of the registry or of the orchestrator, and what it
\* returns is a function of the prompt alone, whatever ran before it.
C23_AnalyzeIsPure ==
  /\ [](AnalyzeActed =>
          /\ ret = Returned(AnalyzeComplexity(req.prompt))
          /\ regCalls = NoRegCalls
          /\ lastCall = NoLastCall)
  /\ [][AnalyzeStep =>
          UNCHANGED <<providers, provider_priority, num_workers, subtasks, running,
                      results, coopError, lastCall, regCalls, reentered,
                      division_result, sse>>]_vars

\* An analysis made after set_provider_priority changed the registry.
C23_Witness ==
  /\ AnalyzeActed
  /\ provider_priority # InitialPriority(providers)
  /\ ret.value.needs_cooperation

\* The result recorded last, by the step that ends.
LastRecorded == results'[Len(results')]

\* C24: a subtask whose call fails is recorded with success = false and the
\* error, and a subtask whose call succeeds with success = true and the
\* answer; either way the step records that one subtask alone: the results
\* already recorded stay as they are and every other running subtask keeps
\* running, in whatever order the subtasks end.
C24_FailureIsolated ==
  [][pc = "ect_collect" =>
       \E i \in running :
         /\ running' = running \ {i}
         /\ results' = Append(results, LastRecorded)
         /\ LastRecorded.task = subtasks[i]
         /\ subtasks' = subtasks
         /\ lastCall'.kind = "subtask"
         /\ LastRecorded.success = (lastCall'.outcome.kind = "return")
         /\ IF LastRecorded.success
            THEN LastRecorded.result = lastCall'.outcome.value
            ELSE LastRecorded.error = lastCall'.outcome.value
         /\ pc' = IF running' = {} THEN "ect_combine" ELSE "ect_collect"]_vars

\* A subtask failed first, a sibling succeeded after it, a third still runs.
C24_Witness ==
  /\ pc = "ect_collect"
  /\ Len(results) = 2
  /\ ~results[1].success
  /\ results[2].success
  /\ running # {}

\* The request went through the parallel execution of its subtasks.
BatchRequest == req.entry \in {"execute_cooperative_task", "get_response"}

\* C25: the combination begins only when every submitted subtask has ended:
\* from then on no subtask runs, the results hold exactly one entry for each
\* submitted subtask, each a success with its answer or a failure with its
\* error, and one registry call was made per subtask; while subtasks are
\* collected no combination call has been made.
C25_JoinAll ==
  /\ (BatchRequest /\ pc = "ect_collect") =>
        /\ regCalls.combine = 0
        /\ Len(results) + Cardinality(running) = Len(subtasks)
  /\ (BatchRequest /\ (pc = "ect_combine" \/ regCalls.combine > 0)) =>
        /\ running = {}
        /\ Len(results) = Len(subtasks)
        /\ regCalls.subtask = Len(subtasks)
        /\ \A i \in 1..Len(subtasks) :
             Cardinality({j \in 1..Len(results) : results[j].task = subtasks[i]}) = 1
        /\ \A j \in 1..Len(results) :
             IF results[j].success
             THEN DOMAIN results[j] = {"task", "success", "result"}
             ELSE DOMAIN results[j] = {"task", "success", "error"}

\* Three subtasks ended, the last submitted first, all with an answer, and
\* the combination is about to begin.
C25_Witness ==
  /\ BatchRequest
  /\ pc = "ect_combine"
  /\ Len(results) = 3
  /\ results[1].task = subtasks[3]
  /\ \A j \in 1..3 : results[j].success

\* The subtasks that succeeded, in the order of the list divide_task returned.
SucceededInListOrder ==
  SelectSeq(subtasks,
            LAMBDA s : \E j \in 1..Len(results) :
                          results[j].task = s /\ results[j].success)

\* C26, as stated: in the combination prompt the successful parts are labeled
\* in the order of the original subtask list, whatever the order in which the
\* subtasks ended.
C26_AsStated ==
  (BatchRequest /\ CombineActed /\ lastCall.kind = "combine") =>
     LET blocks == lastCall.text.combined
     IN  /\ Len(blocks) = Len(SucceededInListOrder)
         /\ \A k \in 1..Len(blocks) :
              /\ blocks[k].part = k
              /\ blocks[k].role = SucceededInListOrder[k].role

\* A stream handler is at work or has ended.
Streaming == req.entry = "_handle_stream"

\* The chunk lines among `lines` that carry a fragment of text.
WithFragment(lines) ==
  SelectSeq(lines, LAMBDA l : l.kind = "chunk" /\ l.has_content /\ l.content # "")

C29_AsStated ==
  /\ DivideActed => ret.value # <<>>
  /\ (BatchRequest /\ pc = "ect_submit") => subtasks # <<>>

\* C30, as stated: in a result with cooperative = true, workers_used is the
\* length of the subtasks list returned with it.
C30_AsStated ==
  (pc = "done" /\ ret.kind = "return" /\ ret.value.type = "cooperative")
    => ret.value.workers_used = Len(ret.value.subtasks)

====
